---- MODULE Spec2Model ----
(***************************************************************************)
(* Circulum recurring payment engine: the PaymentScheduler                 *)
(* (cron/src/scheduler.ts), the PaymentProcessor                           *)
(* (cron/src/services/payment-processor.ts) and the event queue of the     *)
(* WebhookService, as a state machine.                                     *)
(*                                                                         *)
(* Every await of the code is a step boundary: a payment cycle is a        *)
(* process whose position is pc[c]; several cycles may be in flight at     *)
(* once because processPayments() holds no lock.  Date.now() is the        *)
(* variable now, advanced by AdvanceTime.  The Settlement Gateway          *)
(* (executePayment) and the store writes (findByIdAndUpdate) succeed or    *)
(* throw nondeterministically.                                             *)
(***************************************************************************)
EXTENDS Integers, Sequences, FiniteSets, TLC

\* ------------------------------------------------------------------ bounds
NumSubs == 3            \* subscriptions in the store
MaxCycles == 2          \* cycle activations that can be in flight at once
MaxTime == 1            \* the clock runs 0..MaxTime
MaxActivations == 2     \* calls of processPayments() in one behaviour
BatchSize == 2          \* config.batchSize (PAYMENT_BATCH_SIZE)
RetryAttempts == 2      \* config.retryAttempts (PAYMENT_RETRY_ATTEMPTS)
GracePeriod == 1        \* config.gracePeriod (PAYMENT_GRACE_PERIOD), seconds
IntervalSeconds == 2    \* plan.intervalSeconds of the active plan
RetryDelay == 1         \* config.retryDelay (PAYMENT_RETRY_DELAY)
MaxWebhooks == 1        \* webhook ids registerWebhook can hand out
MaxEmits == 3           \* calls of emitEvent in one behaviour
MaxTests == 1           \* calls of testWebhook in one behaviour
DigestBytes == 1        \* bytes of a signature digest

\* ------------------------------------------------------- program constants
CancelThreshold == 3    \* handlePaymentFailure: failedPayments >= 3
DisableThreshold == 5   \* sendWebhook: newFailureCount >= 5

SubIds == 1..NumSubs
CycleIds == 1..MaxCycles
Statuses == {"active", "paused", "cancelled", "expired"}

\* The Plan Store: plan "p1" exists and is active, "p2" exists and is
\* inactive, "p3" is in no document (Plan.findById returns null).
PlanIds == {"p1", "p2", "p3"}
PlanExists(p) == p \in {"p1", "p2"}
PlanIsActive(p) == p = "p1"

WebhookIds == 1..MaxWebhooks
\* The event types endpoints subscribe to (two of the emit helpers).
EventTypes == {"payment.processed", "payment.failed"}

VARIABLES
    initialized,   \* scheduler.paymentProcessor # null
    isRunning,     \* scheduler.isRunning
    cronJob,       \* scheduler.cronJob # null (the timer is scheduled)
    timers,        \* the tasks cron.schedule has created and started that
                   \* have not been stopped
    now,           \* Math.floor(Date.now() / 1000)
    subs,          \* the Subscription collection: id -> document
    pc,            \* position of each cycle activation
    cycTime,       \* processDuePayments: currentTime
    batch,         \* processDuePayments: dueSubscriptions (snapshots)
    results,       \* processDuePayments: results
    attempt,       \* processSubscriptionPayment: attempt
    waited,        \* the delay awaited before the current attempt
    charged,       \* the running settleOne has had a successful executePayment
    unsettled,     \* per subscription: a successful executePayment has not
                   \* been followed by a persisted success update yet
    activations,   \* calls of processPayments() so far (bounds the behaviour)
    eventQueue,    \* WebhookService.eventQueue
    webhooks,      \* WebhookService.webhooks: id -> Webhook
    processing,    \* WebhookService.processing
    deliveries,    \* sendWebhook calls of the drain in flight: id -> the
                   \* failureCount of the Webhook object the call was
                   \* handed, and the event
    tests,         \* sendWebhook calls of testWebhook in flight, likewise
    issued,        \* webhook ids, events and tests created so far
    consecutive,   \* per webhook id: failed deliveries since the last
                   \* successful one (history)
    verified,      \* the last call of verifySignature: its arguments and
                   \* how it ended
    tested,        \* the last testWebhook that returned: the id, whether
                   \* the endpoint answered 2xx, and the success returned
    validated,     \* the last request through validateWebhookSignature:
                   \* its headers, the time and how it ended
    authorized     \* the last request through requirePermissions: the
                   \* route, the key's permissions and how it ended

busVars == <<eventQueue, webhooks, processing, deliveries, tests, issued, consecutive,
            verified, tested>>

\* The API server's middleware (api/src/middleware/auth.ts).
apiVars == <<validated, authorized>>

vars == <<initialized, isRunning, cronJob, timers, now, subs, pc, cycTime, batch,
          results, attempt, waited, charged, unsettled, activations, busVars,
          apiVars>>

schedVars == <<initialized, isRunning, cronJob, timers>>
cycleVars == <<pc, cycTime, batch, results, attempt, waited, charged>>

\* ----------------------------------------------------------------- helpers
RECURSIVE SeqOfSet(_)
\* The documents of a result set in the store's natural (id) order.
SeqOfSet(S) ==
    IF S = {} THEN <<>>
    ELSE LET m == CHOOSE x \in S : \A y \in S : x <= y
         IN  <<m>> \o SeqOfSet(S \ {m})

Min(a, b) == IF a <= b THEN a ELSE b

\* The discovery filter without the status condition.
IsDueAnyStatus(doc, t) == doc.nextPayment <= t

\* The filter of Subscription.find in processDuePayments.
IsDueActive(doc, t) == doc.status = "active" /\ doc.nextPayment <= t

\* .limit(batchSize): how many documents the query returns.
LimitCount(n) == Min(BatchSize, n)

\* A snapshot of a stored document, as Subscription.find returns it.
Snapshot(store, s) ==
    [id |-> s,
     status |-> store[s].status,
     nextPayment |-> store[s].nextPayment,
     failedPayments |-> store[s].failedPayments,
     planId |-> store[s].planId]

\* The possible answers of the discovery query at time t: the filter, then
\* the limit.  The query has no sort, so which due documents fall inside
\* the limit is the store's choice.
DueBatches(store, t) ==
    LET due == {s \in SubIds : IsDueActive(store[s], t)}
        picks == {P \in SUBSET due : Cardinality(P) = LimitCount(Cardinality(due))}
    IN  {[i \in 1..Cardinality(P) |-> Snapshot(store, SeqOfSet(P)[i])] : P \in picks}

\* The success update without the reset of failedPayments.
SuccessUpdateKeepFailures(doc, t, interval) ==
    [doc EXCEPT !.lastPayment = t,
                !.nextPayment = t + interval,
                !.totalPayments = @ + 1]

\* updateSubscriptionAfterPayment: $set lastPayment, nextPayment,
\* failedPayments and $inc totalPayments on the stored document.
SuccessUpdate(doc, t, interval) ==
    [doc EXCEPT !.lastPayment = t,
                !.nextPayment = t + interval,
                !.failedPayments = 0,
                !.totalPayments = @ + 1]

\* The failure update with the cancellation test off by one (> for >=).
FailureUpdateOffByOne(doc, snap, t) ==
    LET failedPayments == snap.failedPayments + 1
        upd == [doc EXCEPT !.failedPayments = failedPayments,
                           !.nextPayment = t + GracePeriod]
    IN  IF failedPayments > CancelThreshold
        THEN [upd EXCEPT !.status = "cancelled"]
        ELSE upd

\* The failure update that leaves nextPayment alone when it cancels.
FailureUpdateCancelOnly(doc, snap, t) ==
    LET failedPayments == snap.failedPayments + 1
    IN  IF failedPayments >= CancelThreshold
        THEN [doc EXCEPT !.failedPayments = failedPayments,
                         !.status = "cancelled"]
        ELSE [doc EXCEPT !.failedPayments = failedPayments,
                         !.nextPayment = t + GracePeriod]

\* handlePaymentFailure: updateData built from the snapshot the cycle holds.
FailureUpdate(doc, snap, t) ==
    LET failedPayments == snap.failedPayments + 1
        upd == [doc EXCEPT !.failedPayments = failedPayments,
                           !.nextPayment = t + GracePeriod]
    IN  IF failedPayments >= CancelThreshold
        THEN [upd EXCEPT !.status = "cancelled"]
        ELSE upd

\* A for loop that is left as soon as one settleOne has failed.
AfterResultAbortOnFailure(c, newResults) ==
    IF /\ Len(newResults) < Len(batch[c])
       /\ \A i \in 1..Len(newResults) : newResults[i].success
    THEN "evaluate" ELSE "returned"

\* The position of the for loop of processDuePayments after one more result:
\* the next subscription of the batch, or the return of the results.
AfterResult(c, newResults) ==
    IF Len(newResults) < Len(batch[c]) THEN "evaluate" ELSE "returned"

\* A for loop that never leaves the first element of the batch.
CurrentFirst(c) == batch[c][1]

\* The subscription the running settleOne of cycle c works on.
Current(c) == batch[c][Len(results[c]) + 1]

InFlight == {c \in CycleIds : pc[c] # "idle"}

Result(ok, snap, kind) == [success |-> ok, id |-> snap.id, outcome |-> kind]

\* A Map with no entry.
EmptyMap == [w \in {} |-> 0]

\* map.delete(id).
MapDelete(map, id) == [w \in DOMAIN map \ {id} |-> map[w]]

\* map.set(id, value).
MapSet(map, id, value) ==
    [w \in DOMAIN map \cup {id} |-> IF w = id THEN value ELSE map[w]]

\* ------------------------------------------------------------------- Init
\* A stored Subscription document (the schema's fields the processor uses).
Doc(st, np, fp, plan) ==
    [status |-> st, nextPayment |-> np, lastPayment |-> -1,
     failedPayments |-> fp, totalPayments |-> 0, planId |-> plan]

\* The stores the scheduler can be started on.  Subscription 1 is always
\* active and due on the active plan with CancelThreshold - 2 recorded
\* failures.  Beside it the store holds
\*   "plans":     a due subscription on the inactive plan and one on the
\*                missing plan that falls due at time 1 (with BatchSize = 2
\*                the limit of the discovery query then cuts the due set);
\*   "inactive":  a paused and an expired subscription, both past their
\*                nextPayment.
\* Subscriptions beyond the third are cancelled.
InitStore(kind) ==
    [s \in SubIds |->
        IF s = 1 THEN Doc("active", 0, CancelThreshold - 2, "p1")
        ELSE IF s > 3 THEN Doc("cancelled", 0, CancelThreshold, "p1")
        ELSE IF kind = "plans"
             THEN (IF s = 2 THEN Doc("active", 0, 0, "p2")
                            ELSE Doc("active", 1, 0, "p3"))
        ELSE (IF s = 2 THEN Doc("paused", 0, 0, "p1")
                       ELSE Doc("expired", 0, 0, "p1"))]

InitStores == {InitStore(kind) : kind \in {"plans", "inactive"}}

\* The scheduler and the processor after construction.
InitScheduler ==
    /\ initialized = FALSE
    /\ isRunning = FALSE
    /\ cronJob = FALSE
    /\ timers = 0
    /\ now = 0
    /\ pc = [c \in CycleIds |-> "idle"]
    /\ cycTime = [c \in CycleIds |-> 0]
    /\ batch = [c \in CycleIds |-> <<>>]
    /\ results = [c \in CycleIds |-> <<>>]
    /\ attempt = [c \in CycleIds |-> 0]
    /\ waited = [c \in CycleIds |-> 0]
    /\ charged = [c \in CycleIds |-> FALSE]
    /\ unsettled = [s \in SubIds |-> FALSE]
    /\ activations = 0

\* No testWebhook has returned.
NotTested == [id |-> 0, ok |-> FALSE, success |-> FALSE]

\* verifySignature has not been called.
NotCalled == [payload |-> "", signature |-> <<>>, secret |-> "", result |-> "none"]

\* A Webhook as registerWebhook builds it, with the failureCount it has
\* reached since.
Webhook(active, events, failureCount) ==
    [active |-> active, events |-> events, failureCount |-> failureCount,
     lastTriggered |-> 0]

\* The WebhookService with n = 0 or 1 endpoints: new WebhookService(), or
\* the service after one endpoint, subscribed to every event type, has
\* failed DisableThreshold - 2 deliveries in a row.
InitWebhookService(n) ==
    /\ eventQueue = <<>>
    /\ webhooks = [w \in 1..n |-> Webhook(TRUE, EventTypes, DisableThreshold - 2)]
    /\ processing = FALSE
    /\ deliveries = EmptyMap
    /\ tests = EmptyMap
    /\ issued = [webhooks |-> n, events |-> 0, tests |-> 0]
    /\ consecutive = [w \in WebhookIds |-> IF w <= n THEN DisableThreshold - 2 ELSE 0]
    /\ verified = NotCalled
    /\ tested = NotTested

\* No request has gone through the API server's middleware.
NoRequest == [signature |-> <<>>, timestamp |-> <<>>, currentTimestamp |-> 0,
              result |-> "none"]

\* No request has gone through requirePermissions.
NoRoute == [route |-> "", authenticated |-> FALSE, permissions |-> {}, result |-> "none"]

InitApi ==
    /\ validated = NoRequest
    /\ authorized = NoRoute

Init ==
    /\ InitScheduler
    /\ InitApi
    /\ subs \in InitStores
    /\ InitWebhookService(0)

\* ------------------------------------------------------------- the clock
AdvanceTime ==
    /\ now < MaxTime
    /\ now' = now + 1
    /\ UNCHANGED <<schedVars, subs, cycleVars, unsettled, busVars, apiVars, activations>>

\* -------------------------------------------------------------- scheduler
\* processPayments() up to its first await: a new activation.  It takes no
\* lock and reads no flag, so it starts whatever else is in flight.  The
\* activation then awaits the pre-processing getProcessingStats() and the
\* discovery query of processDuePayments (the action Discover).
ProcessPayments ==
    /\ initialized
    /\ InFlight # CycleIds
    /\ activations < MaxActivations
    /\ activations' = activations + 1
    /\ LET c == CHOOSE x \in CycleIds \ InFlight :
                    \A y \in CycleIds \ InFlight : x <= y
       IN  pc' = [pc EXCEPT ![c] = "discover"]
    /\ UNCHANGED <<cycTime, batch, results, attempt, waited, charged>>

\* initialize(): connects and constructs the PaymentProcessor.
Initialize ==
    /\ ~initialized
    /\ initialized' = TRUE
    /\ UNCHANGED <<isRunning, cronJob, timers, now, subs, cycleVars, unsettled, busVars, apiVars,
                   activations>>

\* A start() without the isRunning guard.
StartIgnoresRunning ==
    /\ initialized
    /\ \E schedulerEnabled \in BOOLEAN :
          IF ~schedulerEnabled
          THEN UNCHANGED <<isRunning, cronJob, timers, cycleVars, activations>>
          ELSE /\ cronJob' = TRUE
               /\ timers' = timers + 1
               /\ isRunning' = TRUE
               /\ ProcessPayments
    /\ UNCHANGED <<initialized, now, subs, unsettled, busVars, apiVars>>

\* A start() that schedules the timer and leaves the first cycle to it.
StartWithoutEagerCycle ==
    /\ initialized
    /\ ~isRunning
    /\ \E schedulerEnabled \in BOOLEAN :
          IF ~schedulerEnabled
          THEN UNCHANGED <<isRunning, cronJob, timers>>
          ELSE /\ cronJob' = TRUE
               /\ timers' = timers + 1
               /\ isRunning' = TRUE
    /\ UNCHANGED <<initialized, now, subs, cycleVars, unsettled, busVars, apiVars, activations>>

\* start(): returns at once when already started (the guard) or when
\* PAYMENT_SCHEDULER_ENABLED is not 'true'; otherwise schedules the timer,
\* sets isRunning and runs the eager cycle.
Start ==
    /\ initialized
    /\ ~isRunning
    /\ \E schedulerEnabled \in BOOLEAN :
          IF ~schedulerEnabled
          THEN UNCHANGED <<isRunning, cronJob, timers, cycleVars, activations>>
          ELSE /\ cronJob' = TRUE
               /\ timers' = timers + 1
               /\ isRunning' = TRUE
               /\ ProcessPayments
    /\ UNCHANGED <<initialized, now, subs, unsettled, busVars, apiVars>>

\* A stop() that also drops the cycles in flight.
StopAbortsCycles ==
    /\ cronJob \/ isRunning
    /\ cronJob' = FALSE
    /\ timers' = IF cronJob THEN timers - 1 ELSE timers
    /\ isRunning' = FALSE
    /\ pc' = [c \in CycleIds |-> "idle"]
    /\ cycTime' = [c \in CycleIds |-> 0]
    /\ batch' = [c \in CycleIds |-> <<>>]
    /\ results' = [c \in CycleIds |-> <<>>]
    /\ attempt' = [c \in CycleIds |-> 0]
    /\ waited' = [c \in CycleIds |-> 0]
    /\ charged' = [c \in CycleIds |-> FALSE]
    /\ UNCHANGED <<initialized, now, subs, unsettled, busVars, apiVars, activations>>

\* stop(): stops and forgets the timer and clears isRunning; cycles in
\* flight are not touched.  On a scheduler that is not started the call
\* changes nothing, so only the other calls are steps.
Stop ==
    /\ cronJob \/ isRunning
    /\ cronJob' = FALSE
    /\ timers' = IF cronJob THEN timers - 1 ELSE timers
    /\ isRunning' = FALSE
    /\ UNCHANGED <<initialized, now, subs, cycleVars, unsettled, busVars, apiVars, activations>>

\* The SIGINT/SIGTERM handler of main (scheduler.ts:183-201, index.ts:25-35):
\* scheduler.stop(), then the store connection is released and the process
\* exits.  Nothing in it waits for a cycle: what is in flight is gone with
\* the process, what was written to the store stays.  A later Initialize is
\* the service started again.
Shutdown ==
    /\ initialized
    /\ initialized' = FALSE
    /\ cronJob' = FALSE
    /\ timers' = 0
    /\ isRunning' = FALSE
    /\ pc' = [c \in CycleIds |-> "idle"]
    /\ cycTime' = [c \in CycleIds |-> 0]
    /\ batch' = [c \in CycleIds |-> <<>>]
    /\ results' = [c \in CycleIds |-> <<>>]
    /\ attempt' = [c \in CycleIds |-> 0]
    /\ waited' = [c \in CycleIds |-> 0]
    /\ charged' = [c \in CycleIds |-> FALSE]
    /\ UNCHANGED <<now, subs, unsettled, busVars, apiVars, activations>>

\* The cron callback of start(): every tick of the timer calls
\* processPayments().
CronTick ==
    /\ cronJob
    /\ ProcessPayments
    /\ UNCHANGED <<schedVars, now, subs, unsettled, busVars, apiVars>>

\* processPaymentsOnce(): the manual trigger.
ProcessPaymentsOnce ==
    /\ ProcessPayments
    /\ UNCHANGED <<schedVars, now, subs, unsettled, busVars, apiVars>>

\* ------------------------------------------------------ payment processor
\* processDuePayments whose failing discovery query escapes processPayments
\* and takes the timer down with it.
DiscoverCrashOnError(c) ==
    /\ pc[c] = "discover"
    /\ \/ /\ \E b \in DueBatches(subs, now) :
                /\ cycTime' = [cycTime EXCEPT ![c] = now]
                /\ batch' = [batch EXCEPT ![c] = b]
                /\ results' = [results EXCEPT ![c] = <<>>]
                /\ pc' = [pc EXCEPT ![c] = AfterResult(c, <<>>)']
          /\ UNCHANGED schedVars
       \/ /\ pc' = [pc EXCEPT ![c] = "idle"]
          /\ cronJob' = FALSE
          /\ timers' = 0
          /\ isRunning' = FALSE
          /\ UNCHANGED <<initialized, cycTime, batch, results>>
    /\ UNCHANGED <<now, subs, attempt, waited, charged, unsettled, busVars, apiVars, activations>>

\* The pre-processing statistics read, then processDuePayments: currentTime,
\* the discovery query and the entry of the for loop.  A statistics read
\* that throws, or a query that throws (rethrown by processDuePayments),
\* ends in the catch of processPayments, which logs it: the activation is
\* over.
Discover(c) ==
    /\ pc[c] = "discover"
    /\ \/ \E b \in DueBatches(subs, now) :
             /\ cycTime' = [cycTime EXCEPT ![c] = now]
             /\ batch' = [batch EXCEPT ![c] = b]
             /\ results' = [results EXCEPT ![c] = <<>>]
             /\ pc' = [pc EXCEPT ![c] = AfterResult(c, <<>>)']
       \/ /\ pc' = [pc EXCEPT ![c] = "idle"]
          /\ UNCHANGED <<cycTime, batch, results>>
    /\ UNCHANGED <<schedVars, now, subs, attempt, waited, charged, unsettled, busVars, apiVars, activations>>

\* One more entry of results and the move of the for loop.
PushResult(c, r) ==
    LET newResults == Append(results[c], r)
    IN  /\ results' = [results EXCEPT ![c] = newResults]
        /\ pc' = [pc EXCEPT ![c] = AfterResult(c, newResults)]
        /\ attempt' = [attempt EXCEPT ![c] = 0]
        /\ waited' = [waited EXCEPT ![c] = 0]
        /\ charged' = [charged EXCEPT ![c] = FALSE]

\* processSubscriptionPayment without the plan checks of lines 94-100: the
\* retry loop is entered whatever the plan is.
EvaluateNoPlanCheck(c) ==
    /\ pc[c] = "evaluate"
    /\ pc' = [pc EXCEPT ![c] = "attempt"]
    /\ attempt' = [attempt EXCEPT ![c] = 1]
    /\ waited' = [waited EXCEPT ![c] = 0]
    /\ charged' = [charged EXCEPT ![c] = FALSE]
    /\ UNCHANGED <<schedVars, now, subs, cycTime, batch, results, unsettled, busVars, apiVars, activations>>

\* processSubscriptionPayment, lines 92-103: the plan is looked up; a missing
\* or inactive plan is thrown to the outer catch, which returns a failure
\* result and writes nothing.  (A lookup that throws takes the same path.)
Evaluate(c) ==
    /\ pc[c] = "evaluate"
    /\ LET snap == Current(c)
       IN  IF PlanExists(snap.planId) /\ PlanIsActive(snap.planId)
           THEN /\ pc' = [pc EXCEPT ![c] = "attempt"]
                /\ attempt' = [attempt EXCEPT ![c] = 1]
                /\ waited' = [waited EXCEPT ![c] = 0]
                /\ charged' = [charged EXCEPT ![c] = FALSE]
                /\ UNCHANGED results
           ELSE PushResult(c, Result(FALSE, snap, "plan"))
    /\ UNCHANGED <<schedVars, now, subs, cycTime, batch, unsettled, busVars, apiVars, activations>>

\* The wait of the retry loop after failed attempt n: delay(retryDelay),
\* the same for every attempt.
RetryWait(n) == RetryDelay

\* The catch of the retry loop (lines 118-125): the next attempt after the
\* retry delay, or handlePaymentFailure when the attempts are used up.
AfterCatch(c) ==
    IF attempt[c] < RetryAttempts
    THEN /\ attempt' = [attempt EXCEPT ![c] = attempt[c] + 1]
         /\ waited' = [waited EXCEPT ![c] = RetryWait(attempt[c])]
         /\ pc' = [pc EXCEPT ![c] = "attempt"]
    ELSE /\ pc' = [pc EXCEPT ![c] = "failure"]
         /\ UNCHANGED <<attempt, waited>>

\* A batch settled in parallel: the Settlement Gateway is called for every
\* subscription of the batch that has no result yet.
AttemptWholeBatch(c) ==
    /\ pc[c] = "attempt"
    /\ \/ /\ pc' = [pc EXCEPT ![c] = "update"]
          /\ charged' = [charged EXCEPT ![c] = TRUE]
          /\ unsettled' = [s \in SubIds |->
                IF \E i \in (Len(results[c]) + 1)..Len(batch[c]) : batch[c][i].id = s
                THEN TRUE ELSE unsettled[s]]
          /\ UNCHANGED <<attempt, waited>>
       \/ /\ AfterCatch(c)
          /\ UNCHANGED <<charged, unsettled>>
    /\ UNCHANGED <<schedVars, now, subs, cycTime, batch, results, busVars, apiVars, activations>>

\* executePayment: the Settlement Gateway call of one attempt.
Attempt(c) ==
    /\ pc[c] = "attempt"
    /\ LET s == Current(c).id
       IN  \/ /\ pc' = [pc EXCEPT ![c] = "update"]
              /\ charged' = [charged EXCEPT ![c] = TRUE]
              /\ unsettled' = [unsettled EXCEPT ![s] = TRUE]
              /\ UNCHANGED <<attempt, waited>>
           \/ /\ AfterCatch(c)
              /\ UNCHANGED <<charged, unsettled>>
    /\ UNCHANGED <<schedVars, now, subs, cycTime, batch, results, busVars, apiVars, activations>>

\* updateSubscriptionAfterPayment, inside the try of the retry loop: the
\* write succeeds and the result is returned, or it throws into the catch of
\* the retry loop.
Update(c) ==
    /\ pc[c] = "update"
    /\ LET snap == Current(c)
           s == snap.id
       IN  \/ /\ subs' = [subs EXCEPT ![s] = SuccessUpdate(subs[s], now, IntervalSeconds)]
              /\ unsettled' = [unsettled EXCEPT ![s] = FALSE]
              /\ PushResult(c, Result(TRUE, snap, "settled"))
           \/ /\ AfterCatch(c)
              /\ UNCHANGED <<subs, unsettled, results, charged>>
    /\ UNCHANGED <<schedVars, now, cycTime, batch, busVars, apiVars, activations>>

\* handlePaymentFailure and the return of the failure result; a write that
\* throws goes to the outer catch, which returns a failure result.
HandleFailure(c) ==
    /\ pc[c] = "failure"
    /\ LET snap == Current(c)
           s == snap.id
           doc == FailureUpdate(subs[s], snap, now)
       IN  \/ /\ subs' = [subs EXCEPT ![s] = doc]
              /\ PushResult(c, Result(FALSE, snap,
                     IF snap.failedPayments + 1 >= CancelThreshold
                     THEN "cancelled" ELSE "grace"))
           \/ /\ PushResult(c, Result(FALSE, snap, "error"))
              /\ UNCHANGED subs
    /\ UNCHANGED <<schedVars, now, cycTime, batch, unsettled, busVars, apiVars, activations>>

\* processDuePayments has returned: processPayments logs and reads the
\* post-processing statistics; whether they answer or throw into the catch,
\* the activation is over.
Return(c) ==
    /\ pc[c] = "returned"
    /\ pc' = [pc EXCEPT ![c] = "idle"]
    /\ cycTime' = [cycTime EXCEPT ![c] = 0]
    /\ batch' = [batch EXCEPT ![c] = <<>>]
    /\ results' = [results EXCEPT ![c] = <<>>]
    /\ attempt' = [attempt EXCEPT ![c] = 0]
    /\ waited' = [waited EXCEPT ![c] = 0]
    /\ charged' = [charged EXCEPT ![c] = FALSE]
    /\ UNCHANGED <<schedVars, now, subs, unsettled, busVars, apiVars, activations>>

Next ==
    \/ AdvanceTime
    \/ Initialize
    \/ Start
    \/ Stop
    \/ Shutdown
    \/ CronTick
    \/ ProcessPaymentsOnce
    \/ \E c \in CycleIds : Discover(c)
    \/ \E c \in CycleIds : Evaluate(c)
    \/ \E c \in CycleIds : Attempt(c)
    \/ \E c \in CycleIds : Update(c)
    \/ \E c \in CycleIds : HandleFailure(c)
    \/ \E c \in CycleIds : Return(c)

Spec == Init /\ [][Next]_vars

\* The cron callback on a timer that fires for ever: a tick as CronTick, not
\* counted in activations.
CronTickForever ==
    /\ cronJob
    /\ initialized
    /\ InFlight # CycleIds
    /\ LET c == CHOOSE x \in CycleIds \ InFlight :
                    \A y \in CycleIds \ InFlight : x <= y
       IN  pc' = [pc EXCEPT ![c] = "discover"]
    /\ UNCHANGED <<schedVars, now, subs, cycTime, batch, results, attempt, waited, charged,
                   unsettled, busVars, apiVars, activations>>

\* The service that is started and left running.
NextRunning ==
    \/ AdvanceTime
    \/ Initialize
    \/ Start
    \/ CronTickForever
    \/ \E c \in CycleIds : Discover(c)
    \/ \E c \in CycleIds : Evaluate(c)
    \/ \E c \in CycleIds : Attempt(c)
    \/ \E c \in CycleIds : Update(c)
    \/ \E c \in CycleIds : HandleFailure(c)
    \/ \E c \in CycleIds : Return(c)

\* The running service with what its scheduling guarantees: main calls
\* initialize() and start(), the timer keeps firing, and every await of a
\* cycle is answered.
SpecRunning ==
    /\ Init
    /\ [][NextRunning]_vars
    /\ WF_vars(Initialize)
    /\ WF_vars(Start)
    /\ WF_vars(CronTickForever)
    /\ \A c \in CycleIds :
          WF_vars(Discover(c) \/ Evaluate(c) \/ Attempt(c) \/ Update(c)
                     \/ HandleFailure(c) \/ Return(c))

\* A cancel or pause by the owning subscriber, as the specification
\* prescribes it: an atomic conditional update, applied only if the stored
\* status is active.
UserSetsStatus ==
    /\ \E s \in SubIds : \E status \in {"paused", "cancelled"} :
          /\ subs[s].status = "active"
          /\ subs' = [subs EXCEPT ![s].status = status]
    /\ UNCHANGED <<schedVars, now, cycleVars, unsettled, busVars, apiVars, activations>>

\* The Payment Scheduler beside the subscribers' own cancel and pause
\* actions.
NextUsers ==
    \/ Next
    \/ UserSetsStatus

SpecUsers == Init /\ [][NextUsers]_vars

\* ============================================================ WebhookService
payVars == <<initialized, isRunning, cronJob, timers, now, subs, pc, cycTime, batch,
             results, attempt, waited, charged, unsettled, activations>>

\* An updateWebhook that sets the entry whether or not the id is in the
\* map: for a missing id the updates over a blank entry.
UpdateWebhookUpserts(map, id, updates) ==
    LET blank == [active |-> FALSE, events |-> {}, failureCount |-> 0, lastTriggered |-> 0]
        old == IF id \in DOMAIN map THEN map[id] ELSE blank
    IN  MapSet(map, id,
               [f \in DOMAIN old |-> IF f \in DOMAIN updates THEN updates[f] ELSE old[f]])

\* updateWebhook(id, updates): the entry merged with the updates, or nothing
\* when the id is not in the map.
UpdateWebhook(map, id, updates) ==
    IF id \notin DOMAIN map THEN map
    ELSE MapSet(map, id,
                [f \in DOMAIN map[id] |->
                    IF f \in DOMAIN updates THEN updates[f] ELSE map[id][f]])

\* sendWebhook after fetch has answered: webhook is the object the call was
\* handed (its failureCount is all that is read of it), ok is response.ok
\* (a network error is not ok).
SendWebhookDone(map, id, webhook, ok) ==
    IF ok
    THEN IF webhook.failureCount > 0
         THEN UpdateWebhook(map, id, [failureCount |-> 0, lastTriggered |-> 1])
         ELSE UpdateWebhook(map, id, [lastTriggered |-> 1])
    ELSE LET newFailureCount == webhook.failureCount + 1
             counted == UpdateWebhook(map, id, [failureCount |-> newFailureCount])
         IN  IF newFailureCount >= DisableThreshold
             THEN UpdateWebhook(counted, id, [active |-> FALSE])
             ELSE counted

\* A processEvent that fans out to disabled endpoints too.
RelevantWebhooksAnyStatus(map, event) ==
    {w \in DOMAIN map : event.type \in map[w].events}

\* processEvent: the endpoints the event is sent to.
RelevantWebhooks(map, event) ==
    {w \in DOMAIN map : map[w].active /\ event.type \in map[w].events}

\* A delivery loop that reads the head of the queue without shifting it.
DrainFromPeeks(queue) ==
    IF queue = <<>>
    THEN /\ processing' = FALSE
         /\ eventQueue' = queue
         /\ deliveries' = EmptyMap
    ELSE /\ processing' = TRUE
         /\ eventQueue' = queue
         /\ deliveries' = [w \in RelevantWebhooks(webhooks, Head(queue)) |->
                              [webhook |-> [failureCount |-> webhooks[w].failureCount],
                               event |-> Head(queue)]]

\* The while loop of processEventQueue at its test: an empty queue ends the
\* drain; otherwise the head is shifted off and processEvent starts one
\* sendWebhook per relevant endpoint.
DrainFrom(queue) ==
    IF queue = <<>>
    THEN /\ processing' = FALSE
         /\ eventQueue' = queue
         /\ deliveries' = EmptyMap
    ELSE /\ processing' = TRUE
         /\ eventQueue' = Tail(queue)
         /\ deliveries' = [w \in RelevantWebhooks(webhooks, Head(queue)) |->
                              [webhook |-> [failureCount |-> webhooks[w].failureCount],
                               event |-> Head(queue)]]

\* The history of consecutive failures after one more delivery to id
\* (counted up to DisableThreshold).
Counted(id, ok) ==
    [consecutive EXCEPT ![id] = IF ok THEN 0 ELSE Min(DisableThreshold, @ + 1)]

\* registerWebhook: a fresh id, failureCount 0.
RegisterWebhook ==
    /\ issued.webhooks < MaxWebhooks
    /\ \E active \in BOOLEAN : \E events \in {{"payment.failed"}, EventTypes} :
          webhooks' = MapSet(webhooks, issued.webhooks + 1, Webhook(active, events, 0))
    /\ issued' = [issued EXCEPT !.webhooks = @ + 1]
    /\ UNCHANGED <<payVars, apiVars, verified, tested, eventQueue, processing, deliveries, tests, consecutive>>

\* deleteWebhook.
DeleteWebhook ==
    /\ \E id \in DOMAIN webhooks : webhooks' = MapDelete(webhooks, id)
    /\ UNCHANGED <<payVars, apiVars, verified, tested, eventQueue, processing, deliveries, tests, issued, consecutive>>

\* updateWebhook called from outside the service, with updates that
\* re-enable the endpoint or clear its failureCount.
CallUpdateWebhook ==
    /\ \E id \in DOMAIN webhooks :
          \E updates \in {[active |-> TRUE], [failureCount |-> 0]} :
             webhooks' = UpdateWebhook(webhooks, id, updates)
    /\ UNCHANGED <<payVars, apiVars, verified, tested, eventQueue, processing, deliveries, tests, issued, consecutive>>

\* An emitEvent that waits for the deliveries in flight before it queues.
EmitEventAwaitsDeliveries ==
    /\ DOMAIN deliveries = {}
    /\ issued.events < MaxEmits
    /\ issued' = [issued EXCEPT !.events = @ + 1]
    /\ \E type \in EventTypes :
          LET queued == Append(eventQueue, [id |-> issued.events + 1, type |-> type])
          IN  IF processing
              THEN /\ eventQueue' = queued
                   /\ UNCHANGED <<processing, deliveries>>
              ELSE DrainFrom(queued)
    /\ UNCHANGED <<payVars, apiVars, verified, tested, webhooks, tests, consecutive>>

\* An emitEvent that enters the delivery loop whether or not a drain is
\* running.
EmitEventAlwaysDrains ==
    /\ issued.events < MaxEmits
    /\ issued' = [issued EXCEPT !.events = @ + 1]
    /\ \E type \in EventTypes :
          DrainFrom(Append(eventQueue, [id |-> issued.events + 1, type |-> type]))
    /\ UNCHANGED <<payVars, apiVars, verified, tested, webhooks, tests, consecutive>>

\* emitEvent: the event is queued and, unless a drain is running,
\* processEventQueue is entered (up to its first await).
EmitEvent ==
    /\ issued.events < MaxEmits
    /\ issued' = [issued EXCEPT !.events = @ + 1]
    /\ \E type \in EventTypes :
          LET queued == Append(eventQueue, [id |-> issued.events + 1, type |-> type])
          IN  IF processing
              THEN /\ eventQueue' = queued
                   /\ UNCHANGED <<processing, deliveries>>
              ELSE DrainFrom(queued)
    /\ UNCHANGED <<payVars, apiVars, verified, tested, webhooks, tests, consecutive>>

\* The setInterval callback of startEventProcessor: every 5 seconds it
\* enters processEventQueue if no drain is running and events are queued,
\* and does nothing otherwise.
DrainTimer ==
    /\ IF ~processing /\ eventQueue # <<>>
       THEN DrainFrom(eventQueue)
       ELSE UNCHANGED <<eventQueue, processing, deliveries>>
    /\ UNCHANGED <<payVars, apiVars, verified, tested, webhooks, tests, issued, consecutive>>

\* One sendWebhook of the drain completes (fetch answers or throws).
DeliveryDone ==
    /\ \E id \in DOMAIN deliveries : \E ok \in BOOLEAN :
          /\ webhooks' = SendWebhookDone(webhooks, id, deliveries[id].webhook, ok)
          /\ deliveries' = MapDelete(deliveries, id)
          /\ consecutive' = Counted(id, ok)
    /\ UNCHANGED <<payVars, apiVars, verified, tested, eventQueue, processing, tests, issued>>

\* A delivery loop that shifts the next event without awaiting processEvent.
DrainStepNoAwait ==
    /\ processing
    /\ DrainFrom(eventQueue)
    /\ UNCHANGED <<payVars, apiVars, verified, tested, webhooks, tests, issued, consecutive>>

\* Promise.allSettled of processEvent has resolved (or there was no relevant
\* endpoint): the while loop goes round.
DrainStep ==
    /\ processing
    /\ DOMAIN deliveries = {}
    /\ DrainFrom(eventQueue)
    /\ UNCHANGED <<payVars, apiVars, verified, tested, webhooks, tests, issued, consecutive>>

\* testWebhook up to the await of its sendWebhook (an unknown id returns
\* 'Webhook not found' and changes nothing).
TestWebhook ==
    /\ issued.tests < MaxTests
    /\ \E id \in DOMAIN webhooks \ DOMAIN tests :
          tests' = MapSet(tests, id,
                          [webhook |-> [failureCount |-> webhooks[id].failureCount]])
    /\ issued' = [issued EXCEPT !.tests = @ + 1]
    /\ UNCHANGED <<payVars, apiVars, verified, tested, eventQueue, webhooks, processing, deliveries, consecutive>>

\* How the promise of sendWebhook settles: a response that is not ok is
\* thrown inside its try, and its catch handles that and a throwing fetch
\* alike, so the promise is fulfilled whatever the endpoint did.
SendWebhookSettles(ok) == "fulfilled"

\* The success field testWebhook returns: true after the awaited
\* sendWebhook, false from the catch around it.
TestWebhookSuccess(settled) == settled = "fulfilled"

\* The sendWebhook of a testWebhook completes and testWebhook returns.
TestDone ==
    /\ \E id \in DOMAIN tests : \E ok \in BOOLEAN :
          /\ webhooks' = SendWebhookDone(webhooks, id, tests[id].webhook, ok)
          /\ tests' = MapDelete(tests, id)
          /\ consecutive' = Counted(id, ok)
          /\ tested' = [id |-> id, ok |-> ok,
                        success |-> TestWebhookSuccess(SendWebhookSettles(ok))]
    /\ UNCHANGED <<payVars, apiVars, verified, eventQueue, processing, deliveries, issued>>

\* ------------------------------------------------------------ signatures
\* Strings are sequences of characters.  The value of a hexadecimal digit,
\* -1 for any other character.
HexVal(ch) ==
    CASE ch = "0" -> 0 [] ch = "1" -> 1 [] ch = "2" -> 2 [] ch = "3" -> 3
      [] ch = "4" -> 4 [] ch = "5" -> 5 [] ch = "6" -> 6 [] ch = "7" -> 7
      [] ch = "8" -> 8 [] ch = "9" -> 9
      [] ch \in {"a", "A"} -> 10 [] ch \in {"b", "B"} -> 11
      [] ch \in {"c", "C"} -> 12 [] ch \in {"d", "D"} -> 13
      [] ch \in {"e", "E"} -> 14 [] ch \in {"f", "F"} -> 15
      [] OTHER -> -1

\* Buffer.from(s, 'hex'): one byte per pair of hexadecimal digits, up to
\* the first pair that is not one; an odd last character is dropped.
RECURSIVE HexDecode(_)
HexDecode(s) ==
    IF Len(s) < 2 \/ HexVal(s[1]) < 0 \/ HexVal(s[2]) < 0
    THEN <<>>
    ELSE <<16 * HexVal(s[1]) + HexVal(s[2])>> \o HexDecode(SubSeq(s, 3, Len(s)))

\* The payloads and secrets in play.
Payloads == {"p", "q"}
Secrets == {"k", "l"}

\* generateSignature: the keyed digest in lower-case hexadecimal, two digits
\* per byte, different for different payloads and secrets.
GenerateSignature(payload, secret) ==
    [i \in 1..(2 * DigestBytes) |->
        IF i = 1 THEN (IF payload = "p" THEN "0" ELSE "a")
        ELSE IF i = 2 THEN (IF secret = "k" THEN "a" ELSE "0")
        ELSE "0"]

\* crypto.timingSafeEqual: a RangeError for buffers of different byte
\* lengths, otherwise whether they are equal.
TimingSafeEqual(a, b) ==
    IF Len(a) # Len(b) THEN "throws"
    ELSE IF a = b THEN "true" ELSE "false"

\* verifySignature.
VerifySignature(payload, signature, secret) ==
    LET expectedSignature == GenerateSignature(payload, secret)
    IN  TimingSafeEqual(HexDecode(signature), HexDecode(expectedSignature))

\* The prefix sendWebhook puts before the signature in X-Circulum-Signature.
HeaderPrefix == <<"s", "h", "a", "2", "5", "6", "=">>

\* The signature values tried: every string of up to MaxSigLen characters
\* (a lower-case and an upper-case digit, a digit, a letter that is no
\* digit), and the header values of the signatures in play.
MaxSigLen == 2 * DigestBytes + 1
SigChars == {"0", "a", "A", "s"}
Signatures ==
    UNION {[1..n -> SigChars] : n \in 0..MaxSigLen}
      \cup {HeaderPrefix \o GenerateSignature(payload, secret) :
                payload \in Payloads, secret \in Secrets}

\* A call of verifySignature.
CallVerifySignature ==
    /\ \E payload \in Payloads : \E secret \in Secrets : \E signature \in Signatures :
          verified' = [payload |-> payload, signature |-> signature, secret |-> secret,
                       result |-> VerifySignature(payload, signature, secret)]
    /\ UNCHANGED <<payVars, apiVars, tested, eventQueue, webhooks, processing, deliveries,
                   tests, issued, consecutive>>

InitBus ==
    /\ InitScheduler
    /\ InitApi
    /\ subs = InitStore("plans")
    /\ \E n \in {0, 1} : InitWebhookService(n)

\* The service driven by registrations, deletions, events, tests and the
\* answers of the endpoints.
NextBus ==
    \/ RegisterWebhook
    \/ DeleteWebhook
    \/ EmitEvent
    \/ DrainTimer
    \/ DeliveryDone
    \/ DrainStep
    \/ TestWebhook
    \/ TestDone

SpecBus == InitBus /\ [][NextBus]_vars

\* The service with what its scheduling guarantees: a sendWebhook in flight
\* is answered (or its fetch throws), the continuation of the awaiting
\* delivery loop is run, and the interval timer keeps firing.
SpecBusLive ==
    /\ SpecBus
    /\ WF_vars(DeliveryDone)
    /\ WF_vars(DrainStep)
    /\ WF_vars(DrainTimer)

\* The service's signature check, called with any arguments.
NextVerify == CallVerifySignature

SpecVerify == InitBus /\ [][NextVerify]_vars

\* The same with updateWebhook open to callers.
NextBusOpen ==
    \/ NextBus
    \/ CallUpdateWebhook

SpecBusOpen == InitBus /\ [][NextBusOpen]_vars

\* ================================================================== claims
Last(q) == q[Len(q)]

\* Cycle c takes the step that ends one settleOne (one more result).
EndsSettleOne(c) == Len(results'[c]) = Len(results[c]) + 1

\* C1: at most one payment cycle is in progress at any time, whichever of
\* the timer tick, the eager cycle of start() and processPaymentsOnce()
\* triggers it.
C1_AtMostOneCycleInProgress == Cardinality(InFlight) <= 1

\* C2: no subscription is charged twice for the same due date: a successful
\* Settlement Gateway call for a subscription is never followed by another
\* one before a success update of that subscription has been persisted.
C2_NoSecondChargeBeforeSettled ==
    [][\A c \in CycleIds :
          (pc[c] = "attempt" /\ pc'[c] = "update") => ~unsettled[Current(c).id]]_vars

\* C3: once a Settlement Gateway call has succeeded inside a settleOne, that
\* settleOne is never recorded as a payment failure: handlePaymentFailure
\* does not run for it (no grace extension, no cancellation, no increment of
\* failedPayments).
C3_StoreFailureIsNotPaymentFailure ==
    [][\A c \in CycleIds :
          (charged[c] /\ EndsSettleOne(c)) =>
              /\ Last(results'[c]).outcome \notin {"grace", "cancelled"}
              /\ subs'[Current(c).id].failedPayments
                    <= subs[Current(c).id].failedPayments]_vars

\* C4: when a cycle ends, every subscription it processed is cancelled or
\* has a nextPayment after the time at which the cycle began, whatever the
\* outcome (a missing or inactive plan included).
C4_ProcessedLeavesDueSet ==
    \A c \in CycleIds :
        pc[c] = "returned" =>
            \A i \in 1..Len(results[c]) :
                \/ subs[results[c][i].id].status = "cancelled"
                \/ subs[results[c][i].id].nextPayment > cycTime[c]

\* Cycle c takes the step in which updateSubscriptionAfterPayment returns.
Settles(c) == pc[c] = "update" /\ EndsSettleOne(c)

\* Cycle c takes the step in which the write of handlePaymentFailure returns.
RecordsFailure(c) ==
    pc[c] = "failure" /\ EndsSettleOne(c) /\ Last(results'[c]).outcome # "error"

\* C5: when a settlement attempt succeeds (the gateway call and the update
\* that follows it), the stored subscription has lastPayment = now,
\* nextPayment = now + plan.intervalSeconds, failedPayments = 0 and one more
\* totalPayments, whatever failedPayments was; settleOne returns success
\* and leaves the retry loop for the next subscription.
C5_SettledUpdate ==
    [][\A c \in CycleIds :
          Settles(c) =>
              LET s == Current(c).id
              IN  /\ subs'[s].lastPayment = now
                  /\ subs'[s].nextPayment = now + IntervalSeconds
                  /\ subs'[s].failedPayments = 0
                  /\ subs'[s].totalPayments = subs[s].totalPayments + 1
                  /\ Last(results'[c]) = Result(TRUE, Current(c), "settled")
                  /\ pc'[c] \in {"evaluate", "returned"}
                  /\ attempt'[c] = 0]_vars

\* C5 witness: a subscription discovered with recorded failures has been
\* settled: the result is a success and the stored count is back to 0.
C5_Witness ==
    \E c \in CycleIds : \E i \in 1..Len(results[c]) :
        /\ results[c][i].success
        /\ batch[c][i].failedPayments > 0
        /\ subs[results[c][i].id].failedPayments = 0
        /\ subs[results[c][i].id].totalPayments = 1
        /\ subs[results[c][i].id].lastPayment >= 0

\* C6: when all the attempts of a settleOne have failed, failedPayments
\* becomes the subscription's count plus one; at CancelThreshold or more the
\* subscription is cancelled, below it the status is left as it is and
\* nextPayment = now + gracePeriod.
C6_FailureEscalation ==
    [][\A c \in CycleIds :
          RecordsFailure(c) =>
              LET snap == Current(c)
                  s == snap.id
              IN  /\ subs'[s].failedPayments = snap.failedPayments + 1
                  /\ snap.failedPayments + 1 >= CancelThreshold
                        => /\ subs'[s].status = "cancelled"
                           /\ Last(results'[c]).outcome = "cancelled"
                  /\ snap.failedPayments + 1 < CancelThreshold
                        => /\ subs'[s].status = subs[s].status
                           /\ subs'[s].nextPayment = now + GracePeriod
                           /\ Last(results'[c]).outcome = "grace"]_vars

\* C6 witness: a subscription found with CancelThreshold - 2 failures was
\* grace-extended by one cycle and then, found with CancelThreshold - 1, was
\* cancelled by another.
C6_Witness ==
    \E c, d \in CycleIds : \E i \in 1..Len(results[c]) : \E j \in 1..Len(results[d]) :
        /\ results[c][i].id = results[d][j].id
        /\ batch[c][i].failedPayments = CancelThreshold - 2
        /\ results[c][i].outcome = "grace"
        /\ batch[d][j].failedPayments = CancelThreshold - 1
        /\ batch[d][j].status = "active"
        /\ results[d][j].outcome = "cancelled"
        /\ subs[results[d][j].id].status = "cancelled"
        /\ subs[results[d][j].id].failedPayments = CancelThreshold

\* C7 (as claimed): a failed settleOne that cancels the subscription leaves
\* its nextPayment unchanged.
C7_CancelLeavesNextPayment ==
    [][\A c \in CycleIds :
          (RecordsFailure(c) /\ Current(c).failedPayments + 1 >= CancelThreshold) =>
              /\ subs'[Current(c).id].status = "cancelled"
              /\ subs'[Current(c).id].nextPayment = subs[Current(c).id].nextPayment]_vars

\* C7 (amended): a failed settleOne that cancels the subscription sets
\* status = cancelled and, like a grace extension, nextPayment = now +
\* gracePeriod.
C7_CancelAlsoSetsNextPayment ==
    [][\A c \in CycleIds :
          (RecordsFailure(c) /\ Current(c).failedPayments + 1 >= CancelThreshold) =>
              /\ subs'[Current(c).id].status = "cancelled"
              /\ subs'[Current(c).id].nextPayment = now + GracePeriod]_vars

\* C7 witness: a subscription cancelled by a failed settleOne whose
\* nextPayment lies after the one it was discovered with.
C7_Witness ==
    \E c \in CycleIds : \E i \in 1..Len(results[c]) :
        /\ results[c][i].outcome = "cancelled"
        /\ subs[results[c][i].id].status = "cancelled"
        /\ subs[results[c][i].id].nextPayment > batch[c][i].nextPayment

\* The event type the terminal outcome of a settleOne is to put on the queue.
EventTypeOf(outcome) ==
    IF outcome = "settled" THEN "payment.processed"
    ELSE IF outcome = "cancelled" THEN "subscription.cancelled"
    ELSE "payment.failed"

\* C8: every terminal outcome of settleOne puts exactly one event on the
\* Event Bus queue: payment.processed, subscription.cancelled or
\* payment.failed, by outcome.
C8_OneEventPerOutcome ==
    [][\A c \in CycleIds :
          EndsSettleOne(c) =>
              /\ Len(eventQueue') = Len(eventQueue) + 1
              /\ Last(eventQueue').type = EventTypeOf(Last(results'[c]).outcome)]_vars

\* C9: a cycle settles only subscriptions that were active and due at its
\* discovery, at most BatchSize of them: every document of the batch was
\* found with status = active and nextPayment <= currentTime, and settleOne
\* has run on documents of the batch only.
C9_OnlyDueActiveWithinBatchSize ==
    \A c \in CycleIds :
        /\ Len(batch[c]) <= BatchSize
        /\ Len(results[c]) <= Len(batch[c])
        /\ \A i \in 1..Len(batch[c]) :
              /\ batch[c][i].status = "active"
              /\ batch[c][i].nextPayment <= cycTime[c]
        /\ \A i \in 1..Len(results[c]) : results[c][i].id = batch[c][i].id

\* C9 witness: a cycle has settled BatchSize subscriptions while a further
\* active one, due at its discovery, was left out of the batch.
C9_Witness ==
    \E c \in CycleIds :
        /\ Len(results[c]) = BatchSize
        /\ \E s \in SubIds :
              /\ \A i \in 1..Len(batch[c]) : batch[c][i].id # s
              /\ subs[s].status = "active"
              /\ subs[s].nextPayment <= cycTime[c]

\* C10: within one cycle settleOne runs at most once per subscription: the
\* documents of a batch are distinct subscriptions and the i-th settleOne
\* works on the i-th of them.
C10_OncePerSubscriptionPerCycle ==
    \A c \in CycleIds :
        /\ \A i, j \in 1..Len(batch[c]) : i # j => batch[c][i].id # batch[c][j].id
        /\ \A i, j \in 1..Len(results[c]) : i # j => results[c][i].id # results[c][j].id
        /\ pc[c] \in {"evaluate", "attempt", "update", "failure"} =>
              /\ Len(results[c]) < Len(batch[c])
              /\ \A i \in 1..Len(results[c]) : results[c][i].id # Current(c).id

\* C10 witness: a cycle settled a subscription (its nextPayment advanced)
\* and then went on to a second, different subscription of the same batch.
C10_Witness ==
    \E c \in CycleIds :
        /\ Len(results[c]) = 2
        /\ results[c][1].success
        /\ subs[results[c][1].id].nextPayment > cycTime[c]
        /\ results[c][2].id # results[c][1].id

\* The step is the exit of the process (the end of Shutdown), which takes
\* every cycle in flight with it.
Exits == initialized /\ ~initialized'

\* Cycle c takes a step of its own.
Steps(c) == ~Exits /\ (pc'[c] # pc[c] \/ Len(results'[c]) # Len(results[c]))

\* The plan of the subscription settleOne of cycle c works on passes the
\* checks of lines 94-100.
PlanUsable(c) == PlanExists(Current(c).planId) /\ PlanIsActive(Current(c).planId)

\* C11: if the subscription's plan is missing or inactive, settleOne ends in
\* a failure outcome at once: no Settlement Gateway call is made, no retry
\* attempt is consumed and failedPayments is not incremented.
C11_PlanFailureConsumesNothing ==
    [][\A c \in CycleIds :
          (Steps(c) /\ pc[c] = "evaluate" /\ ~PlanUsable(c)) =>
              /\ EndsSettleOne(c)
              /\ Last(results'[c]) = Result(FALSE, Current(c), "plan")
              /\ attempt'[c] = 0
              /\ ~charged'[c]
              /\ unsettled' = unsettled
              /\ subs' = subs]_vars

\* C11 witness: settleOne has ended in a plan failure for a subscription
\* that was never charged and whose failedPayments is the discovered one.
C11_Witness ==
    \E c \in CycleIds : \E i \in 1..Len(results[c]) :
        /\ results[c][i].outcome = "plan"
        /\ ~results[c][i].success
        /\ ~PlanIsActive(batch[c][i].planId)
        /\ ~unsettled[results[c][i].id]
        /\ subs[results[c][i].id].failedPayments = batch[c][i].failedPayments
        /\ subs[results[c][i].id].totalPayments = 0

\* C12: one settleOne makes at most RetryAttempts Settlement Gateway calls
\* (the calls are numbered by attempt) and makes no further call once one of
\* them has succeeded.
C12_BoundedRetriesStopAtSuccess ==
    \A c \in CycleIds :
        /\ attempt[c] <= RetryAttempts
        /\ pc[c] = "attempt" => ~charged[c]

\* The settleOne runs, still held by a cycle, that ended with all attempts
\* failed and the failure recorded for subscription s.
FailedRuns(s) ==
    {<<c, i>> \in CycleIds \X (1..NumSubs) :
        /\ i <= Len(results[c])
        /\ results[c][i].id = s
        /\ results[c][i].outcome \in {"grace", "cancelled"}}

\* The smallest failedPayments a set of runs found the subscription with.
FoundWith(runs) ==
    CHOOSE f \in 0..CancelThreshold :
        /\ \E r \in runs : Min(CancelThreshold, batch[r[1]][r[2]].failedPayments) = f
        /\ \A r \in runs : Min(CancelThreshold, batch[r[1]][r[2]].failedPayments) >= f

\* C13: a subscription found with f < CancelThreshold failures and never
\* settled since is cancelled once CancelThreshold - f cycles have ended
\* with all its attempts failed.
C13_CancelledAfterThresholdFailures ==
    \A s \in SubIds :
        (/\ FailedRuns(s) # {}
         /\ subs[s].totalPayments = 0
         /\ Cardinality(FailedRuns(s)) >= CancelThreshold - FoundWith(FailedRuns(s)))
            => subs[s].status = "cancelled"

\* The positions of a cycle inside the for loop of processDuePayments.
Settling == {"evaluate", "attempt", "update", "failure"}

\* C14: a failure while settling one subscription never aborts the cycle:
\* from inside the for loop a cycle (of a process that does not exit) only
\* goes on settling or returns its results, and the results it returns
\* hold exactly one outcome per discovered subscription, in the order of
\* the batch.
C14_FailureDoesNotAbortCycle ==
    [][\A c \in CycleIds :
          /\ (pc[c] \in Settling /\ ~Exits) => pc'[c] \in Settling \cup {"returned"}
          /\ (pc[c] # "returned" /\ pc'[c] = "returned") =>
                /\ Len(results'[c]) = Len(batch'[c])
                /\ \A i \in 1..Len(batch'[c]) : results'[c][i].id = batch'[c][i].id]_vars

\* C14 witness: a cycle has returned two outcomes, the first of them a
\* settlement failure (all attempts failed, or a throwing store write).
C14_Witness ==
    \E c \in CycleIds :
        /\ pc[c] = "returned"
        /\ Len(batch[c]) = 2
        /\ Len(results[c]) = 2
        /\ results[c][1].outcome \in {"grace", "error"}
        /\ results[c][2].id = batch[c][2].id

\* Cycle c takes the step in which a statistics read or the discovery
\* query throws.
Throws(c) == pc[c] = "discover" /\ pc'[c] = "idle" /\ ~Exits

\* C15: an error raised by a cycle (a statistics read, or the discovery
\* query rethrown by processDuePayments) ends the activation and nothing
\* else: the step stops no timer and clears no flag, and with the timer
\* scheduled a tick can then start the next cycle.
C15_CycleErrorIsCaught ==
    /\ [][\A c \in CycleIds : Throws(c) => UNCHANGED <<schedVars, subs>>]_vars
    /\ [](\A c \in CycleIds :
             (pc[c] = "discover" /\ cronJob /\ activations < MaxActivations)
                => ENABLED (Discover(c) /\ Throws(c) /\ (ENABLED CronTick)'))

\* C15 witness: the only cycle in flight is at its discovery query with the
\* timer scheduled; the query can throw, and after that step the scheduler
\* is as it was and a tick can start a cycle.
C15_Witness ==
    \E c \in CycleIds :
        /\ pc[c] = "discover"
        /\ InFlight = {c}
        /\ initialized /\ cronJob /\ isRunning
        /\ ENABLED (/\ Discover(c)
                    /\ Throws(c)
                    /\ UNCHANGED schedVars
                    /\ (ENABLED CronTick)')

\* C16: graceful shutdown waits for the cycle in flight: the step in which
\* the signal handler releases the store connection and exits is taken only
\* when no cycle is running.
C16_ShutdownWaitsForCycle ==
    [][Exits => InFlight = {}]_vars

\* The next step of cycle c, whatever its position.
CycleStep(c) ==
    \/ Discover(c) \/ Evaluate(c) \/ Attempt(c) \/ Update(c)
    \/ HandleFailure(c) \/ Return(c)

\* The step is a stop() that finds the timer scheduled.
StopsTimer == cronJob /\ ~cronJob' /\ initialized'

\* C17: stop() cancels the timer and touches no cycle: the step leaves every
\* cycle where it was; while no timer is scheduled no tick can start a
\* cycle; and a cycle in flight can always take its next step, timer or no
\* timer.
C17_StopCancelsTimerOnly ==
    /\ [][StopsTimer => (~isRunning' /\ UNCHANGED <<cycleVars, subs>>)]_vars
    /\ [](~cronJob => ~ENABLED CronTick)
    /\ [](\A c \in CycleIds : (pc[c] # "idle" /\ ~cronJob) => ENABLED CycleStep(c))

\* C17 witness: the timer is scheduled and a cycle is in the middle of its
\* batch; stop() can act, and after it no tick can fire while the cycle can
\* go on.
C17_Witness ==
    /\ cronJob /\ isRunning
    /\ \E c \in CycleIds :
          /\ pc[c] \in Settling
          /\ ENABLED (/\ Stop
                      /\ UNCHANGED cycleVars
                      /\ (~ENABLED CronTick)'
                      /\ (ENABLED CycleStep(c))')

\* C18: start() on an initialized, enabled, not yet started scheduler can
\* act and schedules the timer; in the same step exactly one cycle (the
\* eager one) is started; a started scheduler has its timer scheduled, and
\* start() on it starts no cycle, which leaves the later ones to the timer.
C18_StartSchedulesAndRunsOneEagerCycle ==
    /\ [][(~isRunning /\ isRunning') =>
             /\ cronJob'
             /\ activations' = activations + 1
             /\ \E c \in CycleIds :
                   /\ pc[c] = "idle"
                   /\ pc'[c] = "discover"
                   /\ \A d \in CycleIds \ {c} : pc'[d] = pc[d]]_vars
    /\ [](isRunning => (cronJob /\ ~ENABLED (Start /\ activations' # activations)))
    /\ []((initialized /\ ~isRunning /\ InFlight # CycleIds /\ activations < MaxActivations)
             => ENABLED (Start /\ isRunning'))

\* C18 witness: the scheduler is started, its timer is scheduled, and the
\* only cycle ever started is the eager one, which is in flight.
C18_Witness ==
    /\ initialized /\ isRunning /\ cronJob
    /\ activations = 1
    /\ Cardinality(InFlight) = 1
    /\ ENABLED CronTick

\* The drain starts a sendWebhook to endpoint w in this step.
Attempts(w) ==
    /\ w \in DOMAIN deliveries'
    /\ w \in DOMAIN deliveries => deliveries'[w].event # deliveries[w].event

\* C19: an endpoint whose last DisableThreshold deliveries have all failed
\* has active = false, and the delivery loop starts no delivery of a queued
\* event to it.
C19_DisabledAfterConsecutiveFailures ==
    /\ [](\A w \in DOMAIN webhooks :
             consecutive[w] >= DisableThreshold => ~webhooks[w].active)
    /\ [][\A w \in WebhookIds :
             Attempts(w) => consecutive[w] < DisableThreshold]_vars

\* C20: in every reachable state of the WebhookService an endpoint with
\* failureCount >= DisableThreshold has active = false.
C20_HighFailureCountIsInactive ==
    \A w \in DOMAIN webhooks :
        webhooks[w].failureCount >= DisableThreshold => ~webhooks[w].active

\* A sendWebhook to endpoint w (of the drain or of testWebhook) completes in
\* this step with a 2xx answer.
Succeeds(w) ==
    /\ \/ w \in DOMAIN deliveries /\ w \notin DOMAIN deliveries'
       \/ w \in DOMAIN tests /\ w \notin DOMAIN tests'
    /\ consecutive'[w] = 0

\* C21: immediately after a successful delivery to a registered endpoint
\* completes, the endpoint's failureCount is 0 and lastTriggered is set,
\* whatever the count was when the delivery started and whatever other
\* deliveries to the endpoint completed meanwhile.
C21_SuccessResetsFailureCount ==
    [][\A w \in WebhookIds :
          (Succeeds(w) /\ w \in DOMAIN webhooks') =>
              /\ webhooks'[w].failureCount = 0
              /\ webhooks'[w].lastTriggered = 1]_vars

\* The number of events shifted off the queue so far: every event emitted
\* is either queued or was dequeued.
Dequeued == issued.events - Len(eventQueue)

\* The step shifts an event off the queue.
Dequeues == issued'.events - Len(eventQueue') > Dequeued

C23_SingleDrain ==
    /\ [](processing => ~ENABLED (EmitEvent /\ Dequeues))
    /\ [](processing => ~ENABLED (DrainTimer /\ Dequeues))
    /\ [][(processing /\ Dequeues) => (issued' = issued /\ DOMAIN deliveries = {})]_vars
    /\ [](~processing => (eventQueue = <<>> /\ DOMAIN deliveries = {}))

\* C23 witness: a drain is awaiting a delivery with an event queued behind
\* it, and both emitEvent and the timer can act.
C23_Witness ==
    /\ processing
    /\ DOMAIN deliveries # {}
    /\ eventQueue # <<>>
    /\ ENABLED (EmitEvent /\ Len(eventQueue') = Len(eventQueue) + 1)
    /\ ENABLED (DrainTimer /\ UNCHANGED busVars)

\* The endpoints that are active and subscribed to the type in the step's
\* first state.
Subscribed(type) ==
    {w \in DOMAIN webhooks : webhooks[w].active /\ type \in webhooks[w].events}

\* C24: the step that dequeues an event starts one delivery of it to each
\* endpoint active and subscribed to its type at that moment and to no
\* other; no other step starts a delivery or puts an event back, so a
\* delivery that ends, failed or not, is never repeated.
C24_OneAttemptPerRelevantEndpoint ==
    /\ [][Dequeues =>
             \E type \in EventTypes :
                LET event == [id |-> Dequeued + 1, type |-> type]
                IN  /\ eventQueue # <<>> => event = Head(eventQueue)
                    /\ DOMAIN deliveries' = Subscribed(type)
                    /\ \A w \in DOMAIN deliveries' : deliveries'[w].event = event]_vars
    /\ [][~Dequeues =>
             /\ DOMAIN deliveries' \subseteq DOMAIN deliveries
             /\ \A w \in DOMAIN deliveries' : deliveries'[w] = deliveries[w]
             /\ \A i \in 1..Len(eventQueue') : eventQueue'[i].id > Dequeued]_vars

\* C24 witness: an endpoint subscribed to one event type only has failed a
\* delivery; the bus is idle, an event of that type can be dequeued and
\* sent to it, and an event of the other type can be dequeued and sent to
\* nobody.
C24_Witness ==
    /\ ~processing
    /\ Dequeued >= 1
    /\ \E w \in DOMAIN webhooks :
          /\ webhooks[w].active
          /\ webhooks[w].events = {"payment.failed"}
          /\ consecutive[w] > 0
          /\ ENABLED (EmitEvent /\ Dequeues /\ DOMAIN deliveries' = {w})
          /\ ENABLED (EmitEvent /\ Dequeues /\ DOMAIN deliveries' = {})

\* C25: every event emitEvent has enqueued is eventually dequeued and
\* fanned out, provided every delivery attempt eventually returns: once k
\* events have been emitted, k events are eventually dequeued.
C25_EveryEventEventuallyDequeued ==
    \A k \in 1..MaxEmits : (issued.events >= k) ~> (Dequeued >= k)

\* C25 witness: every event of the behaviour has been emitted, the last of
\* them waits in the queue behind a delivery in flight.
C25_Witness ==
    /\ issued.events = MaxEmits
    /\ processing
    /\ DOMAIN deliveries # {}
    /\ Len(eventQueue) >= 1
    /\ Last(eventQueue).id = MaxEmits

\* A sendWebhook to endpoint w (of the drain or of testWebhook) completes in
\* this step with a non-2xx answer or a network error.
Fails(w) ==
    /\ \/ w \in DOMAIN deliveries /\ w \notin DOMAIN deliveries'
       \/ w \in DOMAIN tests /\ w \notin DOMAIN tests'
    /\ consecutive'[w] > 0

\* The step is a call of emitEvent.
Emits == issued'.events # issued.events

\* C26: emitEvent can always be called, whatever deliveries are in flight,
\* and the call completes none of them: it only queues the event (and, on
\* an idle bus, starts the drain).  A failed delivery changes nothing but
\* the failureCount and active flag of its endpoint: the queue, the drain
\* flag, the other endpoints and the Payment Processor are left as they
\* were.
C26_EmitNeverBlocksOrFails ==
    /\ [](issued.events < MaxEmits => ENABLED EmitEvent)
    /\ [][Emits =>
             /\ \A w \in DOMAIN deliveries :
                   w \in DOMAIN deliveries' /\ deliveries'[w] = deliveries[w]
             /\ UNCHANGED <<payVars, apiVars, verified, tested, webhooks, tests, consecutive>>]_vars
    /\ [][\A w \in WebhookIds :
             Fails(w) =>
                /\ UNCHANGED <<payVars, apiVars, verified, eventQueue, processing, issued>>
                /\ DOMAIN webhooks' = DOMAIN webhooks
                /\ \A v \in DOMAIN webhooks :
                      /\ v # w => webhooks'[v] = webhooks[v]
                      /\ webhooks'[v].events = webhooks[v].events
                      /\ webhooks'[v].lastTriggered = webhooks[v].lastTriggered]_vars

\* C26 witness: a delivery to an endpoint has failed, the next event is in
\* flight to it, and emitEvent can queue another event behind it.
C26_Witness ==
    \E w \in DOMAIN deliveries :
        /\ processing
        /\ w \in DOMAIN webhooks
        /\ consecutive[w] > DisableThreshold - 2
        /\ deliveries[w].event.id >= 2
        /\ ENABLED (EmitEvent /\ Len(eventQueue') = Len(eventQueue) + 1
                              /\ deliveries' = deliveries)

\* C27: a stored status only ever changes from active, and only to paused
\* or cancelled, whatever cycles and subscriber actions interleave.
C27_StatusOnlyLeavesActive ==
    [][\A s \in SubIds :
          subs'[s].status # subs[s].status =>
              /\ subs[s].status = "active"
              /\ subs'[s].status \in {"paused", "cancelled"}]_vars

\* C28: a stored nextPayment never decreases, whatever cycles interleave.
C28_NextPaymentNeverDecreases ==
    [][\A s \in SubIds : subs'[s].nextPayment >= subs[s].nextPayment]_vars

RECURSIVE Pow2(_)
Pow2(n) == IF n = 0 THEN 1 ELSE 2 * Pow2(n - 1)

\* Cycle c goes from a failed attempt to the next one in this step.
Retries(c) == attempt[c] >= 1 /\ attempt'[c] = attempt[c] + 1

\* C29: after failed attempt n < RetryAttempts, settleOne waits
\* RetryDelay * 2^n before attempt n + 1, so each wait is longer than the
\* one before it.
C29_ExponentialBackoff ==
    [][\A c \in CycleIds :
          Retries(c) =>
              /\ waited'[c] = RetryDelay * Pow2(attempt[c])
              /\ waited'[c] > waited[c]]_vars

\* C30: verifySignature returns true when the signature is the hexadecimal
\* digest of the payload under the secret, and returns false for every
\* other signature value, of whatever length or form.
C30_VerifySignatureDecides ==
    verified.result # "none" =>
        verified.result =
            IF verified.signature = GenerateSignature(verified.payload, verified.secret)
            THEN "true" ELSE "false"

\* ===================================================== API server middleware
\* The tolerance of validateWebhookSignature, in seconds.
TimestampTolerance == 300

NaN == [nan |-> TRUE, value |-> 0]
Number(n) == [nan |-> FALSE, value |-> n]

\* The value of a character as a digit of the radix, -1 when it is none.
DigitVal(ch, radix) ==
    LET v == HexVal(ch) IN IF v >= 0 /\ v < radix THEN v ELSE -1

\* The number of leading characters of s that are digits of the radix.
RECURSIVE DigitPrefix(_, _)
DigitPrefix(s, radix) ==
    IF s = <<>> \/ DigitVal(Head(s), radix) < 0 THEN 0
    ELSE 1 + DigitPrefix(Tail(s), radix)

\* The value of a sequence of digits of the radix.
RECURSIVE DigitsValue(_, _)
DigitsValue(s, radix) ==
    IF s = <<>> THEN 0
    ELSE radix * DigitsValue(SubSeq(s, 1, Len(s) - 1), radix) + DigitVal(s[Len(s)], radix)

\* parseInt(string) with no radix argument: an optional sign, then the
\* longest run of digits (hexadecimal ones after 0x or 0X, decimal ones
\* otherwise); what follows the digits is ignored, and a string with no
\* digit there is NaN.
ParseInt(string) ==
    LET signed == string # <<>> /\ Head(string) \in {"-", "+"}
        sign == IF signed /\ Head(string) = "-" THEN -1 ELSE 1
        body == IF signed THEN Tail(string) ELSE string
        hex == Len(body) >= 2 /\ body[1] = "0" /\ body[2] \in {"x", "X"}
        radix == IF hex THEN 16 ELSE 10
        digits == IF hex THEN SubSeq(body, 3, Len(body)) ELSE body
        n == DigitPrefix(digits, radix)
    IN  IF n = 0 THEN NaN
        ELSE Number(sign * DigitsValue(SubSeq(digits, 1, n), radix))

Abs(n) == IF n < 0 THEN 0 - n ELSE n

\* Math.abs(a - b) > limit where b may be NaN: every comparison with NaN is
\* false.
AbsDiffExceeds(a, b, limit) ==
    IF b.nan THEN FALSE ELSE Abs(a - b.value) > limit

\* string.startsWith(prefix).
StartsWith(string, prefix) ==
    /\ Len(string) >= Len(prefix)
    /\ SubSeq(string, 1, Len(prefix)) = prefix

\* validateWebhookSignature: what it hands to next(), "next" for a request
\* it lets through.  A header that is absent and one that is empty are both
\* the empty sequence.
ValidateWebhookSignature(signature, timestamp, currentTimestamp) ==
    IF signature = <<>> \/ timestamp = <<>>
    THEN "Missing webhook signature or timestamp"
    ELSE IF ~StartsWith(signature, HeaderPrefix)
    THEN "Invalid signature format"
    ELSE LET webhookTimestamp == ParseInt(timestamp)
         IN  IF AbsDiffExceeds(currentTimestamp, webhookTimestamp, TimestampTolerance)
             THEN "Webhook timestamp too old"
             ELSE "next"

\* The X-Circulum-Signature headers tried: none, one of the documented
\* form, one without the prefix.
SignatureHeaders ==
    {<<>>, HeaderPrefix \o GenerateSignature("p", "k"), GenerateSignature("p", "k")}

\* The X-Circulum-Timestamp headers tried: every string of up to MaxTsLen
\* characters (digits, a letter, a sign).
MaxTsLen == 3
TsChars == {"0", "3", "9", "x", "-"}
TimestampHeaders == UNION {[1..n -> TsChars] : n \in 0..MaxTsLen}

\* The values of Math.floor(Date.now() / 1000) tried.
CurrentTimestamps == {0, 603}

\* A request through validateWebhookSignature.
CallValidateWebhookSignature ==
    /\ \E signature \in SignatureHeaders : \E timestamp \in TimestampHeaders :
       \E currentTimestamp \in CurrentTimestamps :
          validated' = [signature |-> signature, timestamp |-> timestamp,
                        currentTimestamp |-> currentTimestamp,
                        result |-> ValidateWebhookSignature(signature, timestamp,
                                                            currentTimestamp)]
    /\ UNCHANGED <<payVars, busVars, authorized>>

NextValidate == CallValidateWebhookSignature

SpecValidate == InitBus /\ [][NextValidate]_vars

\* A header that is a number: decimal digits after an optional minus sign.
IsNumeric(string) ==
    LET body == IF string # <<>> /\ Head(string) = "-" THEN Tail(string) ELSE string
    IN  body # <<>> /\ DigitPrefix(body, 10) = Len(body)

\* C31: validateWebhookSignature lets a request through only if its
\* timestamp header is a number within TimestampTolerance seconds of the
\* current time; a header that is not a number is rejected.
C31_OnlyFreshTimestampsPass ==
    validated.result = "next" =>
        /\ IsNumeric(validated.timestamp)
        /\ Abs(validated.currentTimestamp - ParseInt(validated.timestamp).value)
               <= TimestampTolerance

\* ------------------------------------------------------- requirePermissions
\* The permissions apiKeySchema accepts at POST /api/integration/api-keys.
AcceptedPermissions ==
    {"plans:read", "plans:write", "subscriptions:read", "subscriptions:write",
     "payments:read", "payments:write", "webhooks:read", "webhooks:write",
     "api-keys:read", "api-keys:write", "integration:write", "metrics:read"}

\* The routes behind requirePermissions, with the permissions each names.
RequiredPermissions(route) ==
    CASE route = "POST /api/plans" -> {"write:plans"}
      [] route = "GET /api/plans/:creator/:planId" -> {"read:plans"}
      [] route = "GET /api/plans/creator/:creator" -> {"read:plans"}
      [] route = "PUT /api/plans/:creator/:planId" -> {"write:plans"}
      [] route = "DELETE /api/plans/:creator/:planId" -> {"write:plans"}
      [] route = "POST /api/subscriptions" -> {"write:subscriptions"}
      [] route = "GET /api/subscriptions/:subscriber/:planId" -> {"read:subscriptions"}
      [] route = "GET /api/subscriptions/subscriber/:subscriber" -> {"read:subscriptions"}
      [] route = "DELETE /api/subscriptions" -> {"write:subscriptions"}
      [] route = "GET /api/subscriptions/:subscriber/:planId/status" -> {"read:subscriptions"}
      [] route = "GET /api/integration/webhooks" -> {"read:webhooks"}
      [] route = "POST /api/integration/webhooks" -> {"write:webhooks"}
      [] route = "GET /api/integration/api-keys" -> {"read:api-keys"}
      [] route = "POST /api/integration/api-keys" -> {"write:api-keys"}
      [] route = "POST /api/integration/test" -> {"integration:write"}
      [] route = "GET /api/integration/metrics" -> {"read:metrics"}

ProtectedRoutes ==
    {"POST /api/plans", "GET /api/plans/:creator/:planId",
     "GET /api/plans/creator/:creator", "PUT /api/plans/:creator/:planId",
     "DELETE /api/plans/:creator/:planId", "POST /api/subscriptions",
     "GET /api/subscriptions/:subscriber/:planId",
     "GET /api/subscriptions/subscriber/:subscriber", "DELETE /api/subscriptions",
     "GET /api/subscriptions/:subscriber/:planId/status",
     "GET /api/integration/webhooks", "POST /api/integration/webhooks",
     "GET /api/integration/api-keys", "POST /api/integration/api-keys",
     "POST /api/integration/test", "GET /api/integration/metrics"}

\* requirePermissions(requiredPermissions) for a request: what it hands to
\* next(), "next" for a request it lets through.
RequirePermissions(requiredPermissions, authenticated, permissions) ==
    IF ~authenticated THEN "401"
    ELSE IF ~(\A permission \in requiredPermissions : permission \in permissions)
    THEN "403"
    ELSE "next"

\* The permission arrays of the keys in play: what apiKeySchema lets
\* through (at least one item, every item an accepted one), up to
\* MaxPermissions items, and the array of all of them.
MaxPermissions == 1
KeyPermissions ==
    {ps \in SUBSET AcceptedPermissions :
        ps # {} /\ (Cardinality(ps) <= MaxPermissions \/ ps = AcceptedPermissions)}

\* A request to a protected route, without a key or with a key created at
\* POST /api/integration/api-keys.
CallRequirePermissions ==
    /\ \E route \in ProtectedRoutes :
          \/ authorized' = [route |-> route, authenticated |-> FALSE, permissions |-> {},
                            result |-> RequirePermissions(RequiredPermissions(route),
                                                          FALSE, {})]
          \/ \E permissions \in KeyPermissions :
                authorized' = [route |-> route, authenticated |-> TRUE,
                               permissions |-> permissions,
                               result |-> RequirePermissions(RequiredPermissions(route),
                                                             TRUE, permissions)]
    /\ UNCHANGED <<payVars, busVars, validated>>

NextAuthorize == CallRequirePermissions

SpecAuthorize == InitBus /\ [][NextAuthorize]_vars

\* C32: a key created with 'plans:write' is let through to create a plan,
\* and every protected route lets some key the creation endpoint accepts
\* through: the key holding every accepted permission.
C32_CreatedKeysAuthorize ==
    /\ (authorized.route = "POST /api/plans" /\ "plans:write" \in authorized.permissions)
           => authorized.result = "next"
    /\ (authorized.authenticated /\ authorized.permissions = AcceptedPermissions)
           => authorized.result = "next"

\* The step changes the document of subscription s or its pending charge.
Touches(s) == subs'[s] # subs[s] \/ unsettled'[s] # unsettled[s]

\* C33: settlement within a cycle is sequential.  The results of a cycle are
\* those of a prefix of its batch, in order; a cycle inside the for loop
\* works on the first subscription without a result, and a step touches at
\* most one subscription, the one some stepping cycle works on.
C33_SequentialSettlement ==
    /\ [](\A c \in CycleIds :
            /\ Len(results[c]) <= Len(batch[c])
            /\ \A i \in 1..Len(results[c]) : results[c][i].id = batch[c][i].id
            /\ pc[c] \in Settling => Len(results[c]) < Len(batch[c]))
    /\ [][/\ Cardinality({s \in SubIds : Touches(s)}) <= 1
          /\ \A s \in SubIds : Touches(s) =>
                \E c \in CycleIds :
                   /\ pc[c] \in Settling
                   /\ Steps(c)
                   /\ s = batch[c][Len(results[c]) + 1].id]_vars

\* A cycle with a batch of two has settled the first subscription, recorded
\* its result and is at the second.
C33_Witness ==
    \E c \in CycleIds :
       /\ Len(batch[c]) = 2
       /\ Len(results[c]) = 1
       /\ results[c][1].success
       /\ subs[batch[c][1].id].totalPayments > 0
       /\ pc[c] = "evaluate"

\* C34: one settleOne obtains at most one successful Settlement Gateway
\* call: a call of executePayment succeeds only in a settleOne none of whose
\* earlier calls has succeeded, whatever happened in between.
C34_OneSuccessfulCallPerSettleOne ==
    [][\A c \in CycleIds :
          (pc[c] = "attempt" /\ pc'[c] = "update" /\ charged'[c]) => ~charged[c]]_vars

\* C35: failedPayments counts failed settleOne runs without loss: the write
\* of handlePaymentFailure leaves the stored failedPayments one above the
\* value that was stored when the write was made, whatever was written to
\* the subscription since the cycle read it at discovery.
C35_FailedPaymentsCountsEveryFailure ==
    [][\A c \in CycleIds :
          RecordsFailure(c) =>
              LET s == Current(c).id
              IN  subs'[s].failedPayments = subs[s].failedPayments + 1]_vars

\* Subscription s is in the batch of a cycle in flight.
Selected(s) ==
    \E c \in CycleIds : \E i \in 1..Len(batch[c]) : batch[c][i].id = s

\* C36: while cycles keep returning their results, every active due
\* subscription is eventually in the batch of some cycle.
C36_EveryDueSubscriptionEventuallySelected ==
    ([]<>(\E c \in CycleIds : pc[c] = "returned")) =>
        \A s \in SubIds : IsDueActive(subs[s], now) ~> Selected(s)

\* C37: testWebhook returns success = true only if its test delivery was
\* answered 2xx, and success = false when the delivery failed.
C37_TestReportsDelivery ==
    tested # NotTested => (tested.success <=> tested.ok)

\* The ids registerWebhook has handed out that are no longer in the map.
DeletedWebhooks == (1..issued.webhooks) \ DOMAIN webhooks

\* C38: a deleted webhook stays deleted: no step puts an id that was handed
\* out and deleted back into the map, and the completion of a delivery or
\* test that was in flight to it leaves the map as it is.
C38_DeletedStaysDeleted ==
    [][/\ DeletedWebhooks \subseteq DeletedWebhooks'
       /\ \A id \in DeletedWebhooks :
             (\/ id \in DOMAIN deliveries \ DOMAIN deliveries'
              \/ id \in DOMAIN tests \ DOMAIN tests') => webhooks' = webhooks]_vars

\* A delivery is in flight to a webhook that has been deleted, and can
\* complete.
C38_Witness ==
    /\ \E id \in DOMAIN deliveries : id \in DeletedWebhooks
    /\ ENABLED DeliveryDone

\* C39: the scheduler has at most one active timer.  While it is started a
\* call of start() changes nothing (no second timer, no second eager
\* cycle); a step that schedules the timer leaves exactly one active, also
\* after a stop(), and a step that cancels it leaves none.
C39_AtMostOneTimer ==
    /\ [](/\ timers <= 1
          /\ isRunning => ~ENABLED <<Start>>_vars)
    /\ [][/\ (~cronJob /\ cronJob') => timers' = 1
          /\ (cronJob /\ ~cronJob') => timers' = 0]_vars

\* The scheduler is started with one timer, and a stop() followed by a
\* start() is possible and ends with one timer.
C39_Witness ==
    /\ cronJob
    /\ isRunning
    /\ timers = 1
    /\ ENABLED (Stop /\ (ENABLED (Start /\ cronJob' /\ timers' = 1))')

====
